---- MODULE Spec2Model ----
(***************************************************************************)
(* A model of run-map-update.py: the place directory builder.  Text that   *)
(* the categorizer inspects is a sequence of one-character strings, every  *)
(* other opaque value (identifiers, tokens, coordinates) is a string.      *)
(***************************************************************************)
EXTENDS Integers, Sequences, FiniteSets, TLC

VARIABLES
    pc,                 \* position of main / search_places
    API_KEY,            \* TRUE when GOOGLE_API_KEY is set to a non-empty value
    locations,          \* main: the list get_cities returned
    locIdx,             \* main: index of `loc` in `for loc in locations`
    language_cache,     \* module global: country name -> language code
    all_search_terms,   \* search_places: SEARCH_KEYWORDS + translated_kws
    termsLeft,          \* search_places: terms of set(all_search_terms) not yet iterated
    term,               \* search_places: the loop variable `term`
    params,             \* search_places: the parameters of the next request
    next_page_token,    \* search_places: the token of the last response
    all_places,         \* search_places: the accumulated raw places
    places,             \* main: the places of `loc` still to be detailed
    all_business_data,  \* main: the assembled records
    df,                 \* main: the data frame (a sequence of rows)
    locklist_df,        \* main: the override frame read from the locklist
    csv,                \* the output CSV: whether it was written, and its rows
    detailsSeen,        \* what get_place_details has returned so far in the run
    timestamp,          \* TRUE once last-run.txt has been written
    raised,             \* the exception that escaped main, or "none"
    log,                \* the requests, responses and waits of the running search_places call
    netCalls,           \* TRUE once a request was sent to any remote API in the run
    srv,                \* the remote services: how much of MaxEvents they have used
    catTypes, catName, catResult   \* the categorizer taken alone: inputs, output

vars == << pc, API_KEY, locations, locIdx, language_cache, all_search_terms,
           termsLeft, term, params, next_page_token, all_places, places, all_business_data, df,
           locklist_df, csv, detailsSeen, timestamp, raised, log, netCalls, srv,
           catTypes, catName, catResult >>

(***************************************************************************)
(* Bounds of the model.                                                    *)
(***************************************************************************)
MaxNameWords == 3
MaxTypeTags == 1

(***************************************************************************)
(* Text.                                                                   *)
(***************************************************************************)
UpperChars ==
    << "A","B","C","D","E","F","G","H","I","J","K","L","M",
       "N","O","P","Q","R","S","T","U","V","W","X","Y","Z" >>

LowerChars ==
    << "a","b","c","d","e","f","g","h","i","j","k","l","m",
       "n","o","p","q","r","s","t","u","v","w","x","y","z" >>

\* str.lower() on one character
LowerChar(c) ==
    IF \E i \in 1..Len(UpperChars) : UpperChars[i] = c
    THEN LowerChars[CHOOSE i \in 1..Len(UpperChars) : UpperChars[i] = c]
    ELSE c

\* str.lower()
Lower(s) == [i \in 1..Len(s) |-> LowerChar(s[i])]

\* " ".join(parts)
RECURSIVE JoinSpace(_)
JoinSpace(parts) ==
    IF parts = << >> THEN << >>
    ELSE IF Len(parts) = 1 THEN parts[1]
    ELSE parts[1] \o << " " >> \o JoinSpace(Tail(parts))

\* kw in full_text
In(kw, full_text) ==
    \E i \in 0..(Len(full_text) - Len(kw)) :
        SubSeq(full_text, i + 1, i + Len(kw)) = kw

\* any(kw in full_text for kw in kws)
AnyIn(kws, full_text) == \E k \in 1..Len(kws) : In(kws[k], full_text)

(***************************************************************************)
(* The categorizer's keyword lists, in the order of the code.              *)
(***************************************************************************)
AccommodationKeywords ==
    << <<"h","o","t","e","l">>,
       <<"r","e","s","o","r","t">>,
       <<"a","p","a","r","t","m","e","n","t","s">>,
       <<"a","c","c","o","m","m","o","d","a","t","i","o","n">>,
       <<"v","i","l","l","a">>,
       <<"g","u","e","s","t","h","o","u","s","e">>,
       <<"l","o","d","g","i","n","g">>,
       <<"i","n","n">>,
       <<"s","u","i","t","e","s">> >>

HealthKeywords ==
    << <<"s","p","a">>,
       <<"h","e","a","l","t","h">>,
       <<"c","l","i","n","i","c">>,
       <<"w","e","l","l","n","e","s","s">>,
       <<"y","o","g","a">>,
       <<"b","e","a","u","t","y">>,
       <<"s","a","l","o","n">>,
       <<"t","h","e","r","a","p","i","e","s">> >>

CreativeKeywords ==
    << <<"d","e","s","i","g","n">>,
       <<"s","t","u","d","i","o">>,
       <<"g","a","l","l","e","r","y">>,
       <<"a","r","t">>,
       <<"m","e","d","i","a">>,
       <<"p","r","o","d","u","c","t","i","o","n","s">>,
       <<"c","r","e","a","t","i","v","e">>,
       <<"p","h","o","t","o","g","r","a","p","h","y">>,
       <<"f","a","s","h","i","o","n">> >>

EventKeywords ==
    << <<"e","v","e","n","t","s">>,
       <<"p","l","a","n","n","i","n","g">>,
       <<"e","n","t","e","r","t","a","i","n","m","e","n","t">>,
       <<"l","o","u","n","g","e">>,
       <<"n","i","g","h","t","c","l","u","b">> >>

CitiesKeywords ==
    << <<"r","e","a","l"," ","e","s","t","a","t","e">>,
       <<"p","r","o","p","e","r","t","i","e","s">>,
       <<"d","e","v","e","l","o","p","m","e","n","t","s">>,
       <<"c","o","n","d","o","m","i","n","i","u","m">>,
       <<"b","u","i","l","d","i","n","g">>,
       <<"d","i","s","p","l","a","y"," ","v","i","l","l","a","g","e">> >>

BlockchainKeywords ==
    << <<"b","l","o","c","k","c","h","a","i","n">>,
       <<"c","r","y","p","t","o">>,
       <<"w","e","b","3">> >>

\* assign_category with the third rule tested before the first
assign_category_reordered(types, name) ==
    LET full_text == Lower(name) \o << " " >> \o Lower(JoinSpace(types))
    IN  IF AnyIn(CreativeKeywords, full_text) THEN "Creative Industries"
        ELSE IF AnyIn(AccommodationKeywords, full_text) THEN "Accommodation"
        ELSE IF AnyIn(HealthKeywords, full_text) THEN "Health & Wellbeing"
        ELSE IF AnyIn(EventKeywords, full_text) THEN "Event Management"
        ELSE IF AnyIn(CitiesKeywords, full_text) THEN "Cities & Developments"
        ELSE IF AnyIn(BlockchainKeywords, full_text) THEN "Blockchain"
        ELSE "Other"

assign_category(types, name) ==
    LET full_text == Lower(name) \o << " " >> \o Lower(JoinSpace(types))
    IN  IF AnyIn(AccommodationKeywords, full_text) THEN "Accommodation"
        ELSE IF AnyIn(HealthKeywords, full_text) THEN "Health & Wellbeing"
        ELSE IF AnyIn(CreativeKeywords, full_text) THEN "Creative Industries"
        ELSE IF AnyIn(EventKeywords, full_text) THEN "Event Management"
        ELSE IF AnyIn(CitiesKeywords, full_text) THEN "Cities & Developments"
        ELSE IF AnyIn(BlockchainKeywords, full_text) THEN "Blockchain"
        ELSE "Other"

(***************************************************************************)
(* Inputs of the categorizer taken alone: names of up to MaxNameWords      *)
(* words and up to MaxTypeTags type tags.                                  *)
(***************************************************************************)
W_Aura == <<"A","u","r","a">>
W_Design == <<"D","e","s","i","g","n">>
W_Hotel == <<"H","o","t","e","l">>
W_Spa == <<"S","p","a">>
W_Real == <<"R","e","a","l">>
W_Estate == <<"E","s","t","a","t","e">>
W_Web3 == <<"W","e","b","3">>
W_Lounge == <<"L","o","u","n","g","e">>
T_lodging == <<"l","o","d","g","i","n","g">>
T_art_gallery == <<"a","r","t","_","g","a","l","l","e","r","y">>

NameWords == { W_Aura, W_Design, W_Hotel, W_Spa, W_Real, W_Estate, W_Web3, W_Lounge }
TypeTags == { T_lodging, T_art_gallery }

SeqsUpTo(S, n) == UNION { [1..k -> S] : k \in 0..n }

CatNames == { JoinSpace(ws) : ws \in SeqsUpTo(NameWords, MaxNameWords) }
CatTypes == SeqsUpTo(TypeTags, MaxTypeTags)

NotRun == "not run"

(***************************************************************************)
(* Configuration and the values the remote services and the files can      *)
(* hand to the program.                                                    *)
(***************************************************************************)
MaxLines == 2        \* lines of the locations file
MaxLockRows == 2     \* rows of the locklist
\* What the remote services do in one run beyond answering with an empty last
\* page: raw places returned, pagination tokens issued and requests failed,
\* counted together.
MaxEvents == 3

SEARCH_KEYWORDS == << "Aura", "Chakra" >>

None == "None"
NoneText == << "<None>" >>     \* None where the other values are text
NoFile == [ written |-> FALSE, rows |-> << >> ]

\* A location line, split at its commas and stripped; a blank line has no part.
LocParis == << "Paris", "France" >>
LocSydney == << "Sydney", "Australia" >>
BlankLine == << >>
CityFiles ==
    { [ found |-> FALSE, lines |-> << >> ] } \cup
    { [ found |-> TRUE, lines |-> l ] :
        l \in SeqsUpTo({ LocParis, LocSydney, BlankLine }, MaxLines) }

\* pycountry: the two-letter code of the countries it knows by name, and the
\* two-letter language codes; its lookups ignore case, so the codes are
\* written in lower case here
CountryAlpha2 == [ France |-> "fr", Australia |-> "au" ]
LanguageAlpha2 == { "fr", "de", "en" }

\* what the translate API may answer for SEARCH_KEYWORDS
Translations == { << "Aure", "Chakra" >> }

ResultPages == { << >>, << "p1" >>, << "p2", "p1" >> }

\* next_page_token: absent, or a token the search API issued (n tells them apart)
NoToken == << >>
Token(n) == << "token", n >>

\* place-details results for a place: every field, the identifier alone,
\* and one whose review list is empty
DetailsFull(pid) ==
    [ place_id |-> pid,
      name |-> JoinSpace(<< W_Aura, W_Design, W_Hotel >>),
      types |-> << T_lodging >>,
      geometry |-> [ location |-> [ lat |-> "48.85", lng |-> "2.35" ] ],
      address_components |->
          << [ types |-> { "locality", "political" }, long_name |-> "Paris" ],
             [ types |-> { "country", "political" }, long_name |-> "France" ] >>,
      website |-> "https://aura.example",
      international_phone_number |-> "+33 1 00 00 00 00",
      reviews |-> << [ text |-> "Lovely" ], [ text |-> "Fine" ] >> ]

DetailsBare(pid) == [ place_id |-> pid ]

DetailsNoReviews(pid) ==
    [ place_id |-> pid, name |-> JoinSpace(<< W_Aura, W_Spa >>), reviews |-> << >> ]

DetailsPool(pid) == { DetailsFull(pid), DetailsBare(pid), DetailsNoReviews(pid) }

\* rows of the locklist: place_id and the cells that are not empty
LockRowPool ==
    { [ place_id |-> "p1", vals |-> [ verified |-> TRUE ] ],
      [ place_id |-> "p1", vals |-> [ id |-> 7, name |-> W_Aura ] ],
      [ place_id |-> "p9", vals |-> [ verified |-> TRUE ] ] }
LocklistFiles ==
    { [ state |-> st, rows |-> << >> ] : st \in { "missing", "zero bytes" } } \cup
    { [ state |-> "table", rows |-> rows ] :
        rows \in { r \in SeqsUpTo(LockRowPool, MaxLockRows) :
                     \A i, j \in 1..Len(r) : r[i].place_id = r[j].place_id => i = j } }

(***************************************************************************)
(* Helpers of the program.                                                 *)
(***************************************************************************)
\* what the remote services can still do within MaxEvents
Left(s) == MaxEvents - s

\* dict.get(k, default)
Get(d, k, default) == IF k \in DOMAIN d THEN d[k] ELSE default

Empty == [ x \in { } |-> None ]     \* {}

\* query_location.split(',')[-1].strip()
CountryName(loc) == loc[Len(loc)]

\* get_language_for_country: the language code returned
LanguageFor(cache, country_name) ==
    IF country_name \in DOMAIN cache THEN cache[country_name]
    ELSE IF country_name \in DOMAIN CountryAlpha2
            /\ CountryAlpha2[country_name] \in LanguageAlpha2
         THEN CountryAlpha2[country_name]
         ELSE "en"

\* get_language_for_country: the cache it leaves
CacheAfter(cache, country_name) ==
    IF country_name \in DOMAIN cache THEN cache
    ELSE [ c \in DOMAIN cache \cup { country_name } |->
             IF c = country_name THEN LanguageFor(cache, country_name) ELSE cache[c] ]

\* get_cities: the lines that are not blank, or [] when the file is not found
get_cities(file) ==
    IF file.found THEN SelectSeq(file.lines, LAMBDA line : line # BlankLine)
    ELSE << >>

\* set(all_search_terms)
TermSet(terms) == { terms[i] : i \in 1..Len(terms) }

\* get_city_country_from_components
RECURSIVE CityCountry(_, _, _)
CityCountry(components, city, country) ==
    IF components = << >> THEN << city, country >>
    ELSE LET c == Head(components)
         IN  CityCountry(Tail(components),
                         IF "locality" \in c.types THEN c.long_name ELSE city,
                         IF "country" \in c.types THEN c.long_name ELSE country)

get_city_country_from_components(address_components) ==
    CityCountry(address_components, "", "")

\* the record main assembles from a non-empty details result whose review
\* list, when present, is not empty
Business(details) ==
    LET location == Get(Get(details, "geometry", Empty), "location", Empty)
        cc == get_city_country_from_components(Get(details, "address_components", << >>))
        first_review == Get(Get(details, "reviews", << Empty >>)[1], "text", "")
    IN  [ place_id |-> Get(details, "place_id", None),
          name |-> Get(details, "name", NoneText),
          category |-> assign_category(Get(details, "types", << >>),
                                       Get(details, "name", << >>)),
          city |-> cc[1],
          country |-> cc[2],
          latitude |-> Get(location, "lat", None),
          longitude |-> Get(location, "lng", None),
          website |-> Get(details, "website", ""),
          phone |-> Get(details, "international_phone_number", ""),
          email |-> "",
          social |-> "",
          description |-> first_review,
          verified |-> FALSE ]

\* details.get('reviews', [{}])[0] raises IndexError
ReviewsIndexError(details) == Get(details, "reviews", << Empty >>) = << >>

\* drop_duplicates that keeps the last row of each identifier
RECURSIVE DropDuplicatesKeepLast(_, _)
DropDuplicatesKeepLast(rows, seen) ==
    IF rows = << >> THEN << >>
    ELSE LET n == Len(rows)
             init == SubSeq(rows, 1, n - 1)
         IN  IF rows[n].place_id \in seen
             THEN DropDuplicatesKeepLast(init, seen)
             ELSE DropDuplicatesKeepLast(init, seen \cup { rows[n].place_id })
                  \o << rows[n] >>

\* df.drop_duplicates(subset='place_id'): rows whose identifier was seen are dropped
RECURSIVE DropDuplicates(_, _)
DropDuplicates(rows, seen) ==
    IF rows = << >> THEN << >>
    ELSE IF Head(rows).place_id \in seen
         THEN DropDuplicates(Tail(rows), seen)
         ELSE << Head(rows) >>
              \o DropDuplicates(Tail(rows), seen \cup { Head(rows).place_id })

\* df.reset_index(drop=True); df['id'] = df.index + 1
AssignIds(rows) == [ i \in 1..Len(rows) |-> rows[i] @@ [ id |-> i ] ]

\* df.update that also writes the override's cells into rows of other identifiers
UpdateAnyRow(rows, lock) ==
    [ i \in 1..Len(rows) |->
        IF lock = << >> THEN rows[i]
        ELSE [ f \in DOMAIN rows[i] |->
                 IF f # "place_id" /\ f \in DOMAIN lock[1].vals
                 THEN lock[1].vals[f] ELSE rows[i][f] ] ]

\* df.set_index('place_id'); df.update(locklist_df); df.reset_index():
\* a cell of the override that is not empty replaces the cell of the row
\* with the same identifier
Update(rows, lock) ==
    [ i \in 1..Len(rows) |->
        LET hit == { k \in 1..Len(lock) : lock[k].place_id = rows[i].place_id }
        IN  IF hit = { } THEN rows[i]
            ELSE LET vals == lock[CHOOSE k \in hit : TRUE].vals
                 IN  [ f \in DOMAIN rows[i] |->
                         IF f # "place_id" /\ f \in DOMAIN vals
                         THEN vals[f] ELSE rows[i][f] ] ]

final_columns ==
    { "id", "name", "category", "city", "country", "latitude", "longitude",
      "website", "email", "phone", "social", "description", "verified" }

\* df.reindex(columns=final_columns)
Reindex(rows) ==
    [ i \in 1..Len(rows) |->
        [ f \in final_columns |-> IF f \in DOMAIN rows[i] THEN rows[i][f] ELSE None ] ]

(***************************************************************************)
(* The run: main and search_places.                                        *)
(***************************************************************************)
Init ==
    /\ pc = "start"
    /\ API_KEY \in BOOLEAN
    /\ locations = << >>
    /\ locIdx = 0
    /\ language_cache = Empty
    /\ all_search_terms = << >>
    /\ termsLeft = { }
    /\ term = None
    /\ params = Empty
    /\ next_page_token = NoToken
    /\ all_places = << >>
    /\ places = << >>
    /\ all_business_data = << >>
    /\ df = << >>
    /\ locklist_df = << >>
    /\ csv = NoFile
    /\ detailsSeen = "not asked"
    /\ timestamp = FALSE
    /\ raised = "none"
    /\ log = << >>
    /\ netCalls = FALSE
    /\ srv = 0
    /\ catTypes = << >>
    /\ catName = << >>
    /\ catResult = NotRun

catVars == << catTypes, catName, catResult >>
searchVars == << all_search_terms, termsLeft, term, params, next_page_token,
                 all_places, log >>
outVars == << df, locklist_df, csv, timestamp >>

\* main without the test of API_KEY
main_check_key_skipped ==
    /\ pc = "start"
    /\ pc' = "cities"
    /\ UNCHANGED << API_KEY, locations, locIdx, language_cache, places,
                    all_business_data, raised, netCalls, srv >>
    /\ UNCHANGED << searchVars, outVars, catVars, detailsSeen >>

\* main: if not API_KEY: return
main_check_key ==
    /\ pc = "start"
    /\ pc' = IF ~API_KEY THEN "done" ELSE "cities"
    /\ UNCHANGED << API_KEY, locations, locIdx, language_cache, places,
                    all_business_data, raised, netCalls, srv >>
    /\ UNCHANGED << searchVars, outVars, catVars, detailsSeen >>

\* main: locations = get_cities(); if not locations: return
main_get_cities ==
    /\ pc = "cities"
    /\ \E file \in CityFiles :
         /\ locations' = get_cities(file)
         /\ IF locations' = << >>
            THEN pc' = "done" /\ locIdx' = locIdx
            ELSE pc' = "search" /\ locIdx' = 1
    /\ all_business_data' = << >>
    /\ UNCHANGED << API_KEY, language_cache, places, raised, netCalls, srv >>
    /\ UNCHANGED << searchVars, outVars, catVars, detailsSeen >>

\* search_places up to the loop over the terms: the language of the country,
\* the translation of the keywords (one request unless the language is 'en')
search_places_begin ==
    /\ pc = "search"
    /\ LET loc == locations[locIdx]
           country_name == CountryName(loc)
           target_lang == LanguageFor(language_cache, country_name)
       IN  /\ language_cache' = CacheAfter(language_cache, country_name)
           /\ \/ /\ target_lang = "en"
                 /\ all_search_terms' = SEARCH_KEYWORDS
                 /\ log' = << >>
                 /\ UNCHANGED << netCalls, srv >>
              \/ /\ target_lang # "en"
                 /\ \E translated_kws \in Translations :
                      all_search_terms' = SEARCH_KEYWORDS \o translated_kws
                 /\ log' = << [ ev |-> "translate", ok |-> TRUE ] >>
                 /\ netCalls' = TRUE
                 /\ UNCHANGED srv
              \/ /\ target_lang # "en"
                 /\ Left(srv) >= 1
                 /\ all_search_terms' = SEARCH_KEYWORDS
                 /\ log' = << [ ev |-> "translate", ok |-> FALSE ] >>
                 /\ netCalls' = TRUE
                 /\ srv' = srv + 1
    /\ termsLeft' = TermSet(all_search_terms')
    /\ all_places' = << >>
    /\ pc' = "term"
    /\ UNCHANGED << API_KEY, locations, locIdx, term, params, next_page_token,
                    places, all_business_data, raised >>
    /\ UNCHANGED << outVars, catVars, detailsSeen >>

\* for term in set(all_search_terms): the next term, in any order
search_places_term ==
    /\ pc = "term"
    /\ termsLeft # { }
    /\ \E t \in termsLeft :
         /\ term' = t
         /\ termsLeft' = termsLeft \ { t }
         /\ params' = [ query |-> << t, locations[locIdx] >> ]
    /\ pc' = "request"
    /\ UNCHANGED << API_KEY, locations, locIdx, language_cache, all_search_terms,
                    next_page_token, all_places, places, all_business_data,
                    raised, log, netCalls, srv >>
    /\ UNCHANGED << outVars, catVars, detailsSeen >>

\* a failed search request that gives up the whole location
TermsAfterFailure_city(left) == { }

\* except requests.exceptions.RequestException: break -- leaves the
\* `while True` of the current term only; the terms still to iterate stay
TermsAfterFailure(left) == left

\* a page loop that stops after the first page whatever the response carries
AfterPage_stop(token) == "term"

\* if not next_page_token: break -- else the wait and the next request
AfterPage(token) == IF token = NoToken THEN "term" ELSE "sleep"

\* params = {"pagetoken": next_page_token, "key": API_KEY}
NextParams(token) == [ pagetoken |-> token ]

\* one pass of `while True`: the request, and either its failure or its
\* response appended to all_places
search_places_request ==
    /\ pc = "request"
    /\ netCalls' = TRUE
    /\ \/ /\ Left(srv) >= 1
          /\ srv' = srv + 1
          /\ log' = log \o << [ ev |-> "request", term |-> term, params |-> params ],
                              [ ev |-> "failure", term |-> term ] >>
          /\ termsLeft' = TermsAfterFailure(termsLeft)
          /\ pc' = "term"
          /\ UNCHANGED << all_places, next_page_token >>
       \/ \E results \in ResultPages, token \in { NoToken, Token(srv) } :
            /\ Len(results) + (IF token = NoToken THEN 0 ELSE 1) <= Left(srv)
            /\ srv' = srv + Len(results) + (IF token = NoToken THEN 0 ELSE 1)
            /\ log' = log \o << [ ev |-> "request", term |-> term, params |-> params ],
                                [ ev |-> "response", term |-> term,
                                  results |-> results, token |-> token ] >>
            /\ all_places' = all_places \o results
            /\ next_page_token' = token
            /\ pc' = AfterPage(token)
            /\ UNCHANGED termsLeft
    /\ UNCHANGED << API_KEY, locations, locIdx, language_cache, all_search_terms,
                    term, params, places, all_business_data, raised >>
    /\ UNCHANGED << outVars, catVars, detailsSeen >>

\* the next request's parameters without the wait
search_places_no_sleep ==
    /\ pc = "sleep"
    /\ params' = NextParams(next_page_token)
    /\ pc' = "request"
    /\ UNCHANGED << API_KEY, locations, locIdx, language_cache, all_search_terms,
                    termsLeft, term, next_page_token, all_places, places,
                    all_business_data, raised, log, netCalls, srv >>
    /\ UNCHANGED << outVars, catVars, detailsSeen >>

\* time.sleep(2); params = {"pagetoken": next_page_token, "key": API_KEY}
search_places_sleep ==
    /\ pc = "sleep"
    /\ log' = Append(log, [ ev |-> "sleep", term |-> term ])
    /\ params' = NextParams(next_page_token)
    /\ pc' = "request"
    /\ UNCHANGED << API_KEY, locations, locIdx, language_cache, all_search_terms,
                    termsLeft, term, next_page_token, all_places, places,
                    all_business_data, raised, netCalls, srv >>
    /\ UNCHANGED << outVars, catVars, detailsSeen >>

\* return all_places, to main's `places = search_places(loc)`; the call's
\* locals end with it
search_places_return ==
    /\ pc = "term"
    /\ termsLeft = { }
    /\ places' = all_places
    /\ pc' = "place"
    /\ all_search_terms' = << >>
    /\ term' = None
    /\ params' = Empty
    /\ next_page_token' = NoToken
    /\ all_places' = << >>
    /\ log' = << >>
    /\ UNCHANGED << API_KEY, locations, locIdx, language_cache, termsLeft,
                    all_business_data, raised, netCalls, srv >>
    /\ UNCHANGED << outVars, catVars, detailsSeen >>

\* one pass of `for place in places`: get_place_details, then the record.
\* A failed request and an empty result skip the place; an empty review
\* list raises IndexError out of main.
main_place ==
    /\ pc = "place"
    /\ places # << >>
    /\ netCalls' = TRUE
    /\ places' = Tail(places)
    /\ \/ /\ Left(srv) >= 1
          /\ srv' = srv + 1
          /\ detailsSeen' = IF detailsSeen = "not asked" THEN "nothing" ELSE detailsSeen
          /\ UNCHANGED << all_business_data, raised, pc >>
       \/ /\ detailsSeen' = IF detailsSeen = "not asked" THEN "nothing" ELSE detailsSeen
          /\ UNCHANGED << all_business_data, raised, pc, srv >>
       \/ \E result \in DetailsPool(Head(places)) :
            /\ detailsSeen' = "something"
            /\ IF ReviewsIndexError(result)
               THEN /\ raised' = "IndexError"
                    /\ pc' = "done"
                    /\ UNCHANGED all_business_data
               ELSE /\ all_business_data' = Append(all_business_data, Business(result))
                    /\ UNCHANGED << raised, pc >>
            /\ UNCHANGED srv
    /\ UNCHANGED << API_KEY, locations, locIdx, language_cache >>
    /\ UNCHANGED << searchVars, outVars, catVars >>

\* `for loc in locations`: the next location, or the end of the loop
main_next_loc ==
    /\ pc = "place"
    /\ places = << >>
    /\ IF locIdx < Len(locations)
       THEN locIdx' = locIdx + 1 /\ pc' = "search"
       ELSE locIdx' = locIdx /\ pc' = "collected"
    /\ UNCHANGED << API_KEY, locations, language_cache, places, all_business_data,
                    raised, netCalls, srv >>
    /\ UNCHANGED << searchVars, outVars, catVars, detailsSeen >>

\* the early exit on no data that forgets the timestamp
main_no_data_silent ==
    /\ pc = "collected"
    /\ all_business_data = << >>
    /\ pc' = "done"
    /\ UNCHANGED << API_KEY, locations, locIdx, language_cache, places,
                    all_business_data, raised, netCalls, srv >>
    /\ UNCHANGED << searchVars, outVars, catVars, detailsSeen >>

\* if not all_business_data: save_last_run_timestamp(); return
main_no_data ==
    /\ pc = "collected"
    /\ all_business_data = << >>
    /\ timestamp' = TRUE
    /\ pc' = "done"
    /\ UNCHANGED << API_KEY, locations, locIdx, language_cache, places,
                    all_business_data, raised, netCalls, srv >>
    /\ UNCHANGED << searchVars, df, locklist_df, csv, catVars, detailsSeen >>

\* df = DataFrame(all_business_data); drop_duplicates; reset_index; id
main_dedup ==
    /\ pc = "collected"
    /\ all_business_data # << >>
    /\ df' = AssignIds(DropDuplicates(all_business_data, { }))
    /\ pc' = "locklist"
    /\ UNCHANGED << API_KEY, locations, locIdx, language_cache, places,
                    all_business_data, raised, netCalls, srv >>
    /\ UNCHANGED << searchVars, locklist_df, csv, timestamp, catVars, detailsSeen >>

\* the try block around pd.read_csv(LOCKLIST_PATH): a missing file is
\* caught, a file of zero bytes raises EmptyDataError, a frame without rows
\* is skipped, any other frame updates df
main_locklist ==
    /\ pc = "locklist"
    /\ \E file \in LocklistFiles :
         IF file.state = "missing"
         THEN /\ pc' = "write"
              /\ UNCHANGED << df, locklist_df, raised >>
         ELSE IF file.state = "zero bytes"
         THEN /\ raised' = "EmptyDataError"
              /\ pc' = "done"
              /\ UNCHANGED << df, locklist_df >>
         ELSE /\ locklist_df' = file.rows
              /\ df' = IF file.rows = << >> THEN df ELSE Update(df, file.rows)
              /\ pc' = "write"
              /\ UNCHANGED raised
    /\ UNCHANGED << API_KEY, locations, locIdx, language_cache, places,
                    all_business_data, netCalls, srv >>
    /\ UNCHANGED << searchVars, csv, timestamp, catVars, detailsSeen >>

\* final_df = df.reindex(columns=final_columns); to_csv; save_last_run_timestamp()
main_write ==
    /\ pc = "write"
    /\ csv' = [ written |-> TRUE, rows |-> Reindex(df) ]
    /\ timestamp' = TRUE
    /\ pc' = "done"
    /\ UNCHANGED << API_KEY, locations, locIdx, language_cache, places,
                    all_business_data, raised, netCalls, srv >>
    /\ UNCHANGED << searchVars, df, locklist_df, catVars, detailsSeen >>

Next ==
    \/ main_check_key
    \/ main_get_cities
    \/ search_places_begin
    \/ search_places_term
    \/ search_places_request
    \/ search_places_sleep
    \/ search_places_return
    \/ main_place
    \/ main_next_loc
    \/ main_no_data
    \/ main_dedup
    \/ main_locklist
    \/ main_write

Spec == Init /\ [][Next]_vars

(***************************************************************************)
(* The categorizer taken alone.                                            *)
(***************************************************************************)
InitCat ==
    /\ pc = "categorize"
    /\ API_KEY = TRUE
    /\ locations = << >>
    /\ locIdx = 0
    /\ language_cache = Empty
    /\ all_search_terms = << >>
    /\ termsLeft = { }
    /\ term = None
    /\ params = Empty
    /\ next_page_token = NoToken
    /\ all_places = << >>
    /\ places = << >>
    /\ all_business_data = << >>
    /\ df = << >>
    /\ locklist_df = << >>
    /\ csv = NoFile
    /\ detailsSeen = "not asked"
    /\ timestamp = FALSE
    /\ raised = "none"
    /\ log = << >>
    /\ netCalls = FALSE
    /\ srv = 0
    /\ catTypes \in CatTypes
    /\ catName \in CatNames
    /\ catResult = NotRun

\* category = assign_category(types, name)
Categorize ==
    /\ pc = "categorize"
    /\ catResult' = assign_category(catTypes, catName)
    /\ pc' = "categorized"
    /\ UNCHANGED << API_KEY, locations, locIdx, language_cache, places,
                    all_business_data, raised, netCalls, srv, catTypes, catName >>
    /\ UNCHANGED << searchVars, outVars, detailsSeen >>

NextCat == Categorize

SpecCat == InitCat /\ [][NextCat]_vars

(***************************************************************************)
(* Properties.                                                             *)
(***************************************************************************)
Labels ==
    { "Accommodation", "Health & Wellbeing", "Creative Industries",
      "Event Management", "Cities & Developments", "Blockchain", "Other" }

PriorityRules ==
    << [ label |-> "Accommodation", keywords |-> AccommodationKeywords ],
       [ label |-> "Health & Wellbeing", keywords |-> HealthKeywords ],
       [ label |-> "Creative Industries", keywords |-> CreativeKeywords ],
       [ label |-> "Event Management", keywords |-> EventKeywords ],
       [ label |-> "Cities & Developments", keywords |-> CitiesKeywords ],
       [ label |-> "Blockchain", keywords |-> BlockchainKeywords ] >>

\* kw occurs in text at some offset, character by character
OccursIn(kw, text) ==
    \E off \in 0..Len(text) :
        /\ off + Len(kw) <= Len(text)
        /\ \A j \in 1..Len(kw) : text[off + j] = kw[j]

RuleMatches(r, text) ==
    \E k \in 1..Len(PriorityRules[r].keywords) :
        OccursIn(PriorityRules[r].keywords[k], text)

\* C1: assign_category returns one of the seven labels, and it is the label
\* of the first rule, in the fixed order, one of whose keywords occurs in the
\* lowercased text of the name followed by the types; "Other" only when no
\* rule matches.
C1_FirstMatchingRule ==
    catResult # NotRun =>
        LET text == Lower(catName \o << " " >> \o JoinSpace(catTypes))
            matching == { r \in 1..Len(PriorityRules) : RuleMatches(r, text) }
        IN  /\ catResult \in Labels
            /\ IF matching = { }
               THEN catResult = "Other"
               ELSE \E r \in matching :
                      /\ \A q \in matching : r <= q
                      /\ catResult = PriorityRules[r].label

\* types = {lodging}, name = 'Aura Design Hotel' was categorized: both the
\* first and the third rule match
C1_Witness ==
    /\ catName = JoinSpace(<< W_Aura, W_Design, W_Hotel >>)
    /\ catTypes = << T_lodging >>
    /\ catResult = "Accommodation"

\* the first index of all_business_data that carries the identifier
FirstIndex(pid) ==
    CHOOSE k \in 1..Len(all_business_data) :
        /\ all_business_data[k].place_id = pid
        /\ \A m \in 1..(k - 1) : all_business_data[m].place_id # pid

\* C2: after the dedup step and before any override, the frame holds exactly
\* one row per distinct identifier of the collected records, that row is the
\* first record collected with the identifier, and the rows are in the
\* order of these first occurrences.
C2_DedupFirstSeen ==
    pc = "locklist" =>
        /\ \A i, j \in 1..Len(df) : df[i].place_id = df[j].place_id => i = j
        /\ { df[i].place_id : i \in 1..Len(df) }
             = { all_business_data[k].place_id : k \in 1..Len(all_business_data) }
        /\ \A i \in 1..Len(df) :
             LET first == all_business_data[FirstIndex(df[i].place_id)]
             IN  \A f \in DOMAIN first : df[i][f] = first[f]
        /\ \A i, j \in 1..Len(df) :
             i < j => FirstIndex(df[i].place_id) < FirstIndex(df[j].place_id)

\* three records were collected, the first and the last with one identifier
\* and different contents, and two rows remain
C2_Witness ==
    /\ pc = "locklist"
    /\ Len(all_business_data) = 3
    /\ all_business_data[1].place_id = all_business_data[3].place_id
    /\ all_business_data[1].category # all_business_data[3].category
    /\ Len(df) = 2

\* C3: the ids of the written rows are 1..N in row order, whatever the locklist.
C3_SequentialIds ==
    csv.written => \A i \in 1..Len(csv.rows) : csv.rows[i].id = i

\* the override cell of the locklist for an identifier and a field, if any
Overriding(lock, pid, f) ==
    { k \in 1..Len(lock) : lock[k].place_id = pid /\ f \in DOMAIN lock[k].vals }

\* C4: applying the locklist keeps the rows and their order; a field of a row
\* takes the override's value exactly when the override row of the row's
\* identifier has a value for it, every other field and every other row is
\* unchanged, and the written rows are the rows so updated.
C4_OverrideFrame ==
    [][ /\ (pc = "locklist" /\ pc' = "write") =>
            /\ Len(df') = Len(df)
            /\ \A i \in 1..Len(df) :
                 /\ DOMAIN df'[i] = DOMAIN df[i]
                 /\ df'[i].place_id = df[i].place_id
                 /\ \A f \in DOMAIN df[i] \ { "place_id" } :
                      LET over == Overriding(locklist_df', df[i].place_id, f)
                      IN  IF over = { }
                          THEN df'[i][f] = df[i][f]
                          ELSE \A k \in over : df'[i][f] = locklist_df'[k].vals[f]
        /\ (pc = "write" /\ pc' = "done") =>
            /\ Len(csv'.rows) = Len(df)
            /\ \A i \in 1..Len(df) :
                 \A f \in final_columns : csv'.rows[i][f] = df[i][f]
      ]_vars

\* two rows were about to be written, p1 with verified overridden to TRUE and
\* its name as assembled, p2 without an override row, and the locklist also
\* had a row for an identifier no record carries
C4_Witness ==
    /\ pc = "write"
    /\ Len(df) = 2
    /\ \E i \in 1..2 :
         /\ df[i].place_id = "p1"
         /\ df[i].verified = TRUE
         /\ df[i].name = JoinSpace(<< W_Aura, W_Design, W_Hotel >>)
    /\ \E i \in 1..2 : df[i].place_id = "p2" /\ df[i].verified = FALSE
    /\ \E k \in 1..Len(locklist_df) : locklist_df[k].place_id = "p9"

\* the events of one kind that the running search_places call logged for a term
EventsOf(kind, t) == SelectSeq(log, LAMBDA e : e.ev = kind /\ e.term = t)

\* the terms the running call has sent a request for
TermsInLog == { log[i].term : i \in { j \in 1..Len(log) : log[j].ev = "request" } }

\* the results of the responses in the first n events of the log, in order
RECURSIVE ResultsUpTo(_)
ResultsUpTo(n) ==
    IF n = 0 THEN << >>
    ELSE ResultsUpTo(n - 1)
         \o (IF log[n].ev = "response" THEN log[n].results ELSE << >>)

IsQuery(p, t, loc) == DOMAIN p = { "query" } /\ p.query = << t, loc >>
IsPageToken(p, token) == DOMAIN p = { "pagetoken" } /\ p.pagetoken = token

\* C5: between two terms, each term whose requests all succeeded was answered
\* k pages, of which only the last carries no token; exactly k requests were
\* sent for it, the first with the query and each later one with the token
\* of the response before it; and all_places is the results of the pages in
\* the order they were received.
C5_Pagination ==
    pc = "term" =>
        /\ all_places = ResultsUpTo(Len(log))
        /\ \A t \in TermsInLog :
             EventsOf("failure", t) = << >> =>
               LET reqs == EventsOf("request", t)
                   resps == EventsOf("response", t)
                   k == Len(resps)
               IN  /\ k >= 1
                   /\ Len(reqs) = k
                   /\ resps[k].token = NoToken
                   /\ \A i \in 1..(k - 1) : resps[i].token # NoToken
                   /\ IsQuery(reqs[1].params, t, locations[locIdx])
                   /\ \A i \in 2..k : IsPageToken(reqs[i].params, resps[i - 1].token)

\* a term was answered two pages, both with places, and no request failed
C5_Witness ==
    /\ pc = "term"
    /\ \E t \in TermsInLog :
         /\ EventsOf("failure", t) = << >>
         /\ Len(EventsOf("request", t)) = 2
         /\ Len(EventsOf("response", t)) = 2
         /\ EventsOf("response", t)[1].results # << >>
         /\ EventsOf("response", t)[2].results # << >>
         /\ Len(all_places) >= 2

\* C6: a run without a key, or with a missing or empty locations file, ends
\* without a request to any remote API and without writing the CSV or the
\* timestamp.
C6_FatalPreconditions ==
    (~API_KEY \/ (pc = "done" /\ locations = << >>)) =>
        /\ ~netCalls
        /\ ~csv.written
        /\ ~timestamp

\* the run without a key has ended
C6_Witness == pc = "done" /\ ~API_KEY /\ ~netCalls /\ ~timestamp

\* C7: with a key and a location, a run in which no details request returned
\* a result ends with the timestamp written, no CSV, and no exception.
C7_EmptyResultSet ==
    (pc = "done" /\ API_KEY /\ locations # << >> /\ detailsSeen # "something") =>
        /\ timestamp
        /\ ~csv.written
        /\ raised = "none"

\* a run found places, every details request failed or was empty, and it ended
C7_Witness ==
    /\ pc = "done"
    /\ API_KEY
    /\ locations # << >>
    /\ detailsSeen = "nothing"
    /\ timestamp
    /\ ~csv.written

\* C8: a run with a key and a location ends without an exception and with
\* the timestamp written, whatever the remote APIs answer (the exception of
\* a locklist of zero bytes is left aside: the claim is about the APIs).
C8_NoExceptionEscapes ==
    (pc = "done" /\ API_KEY /\ locations # << >> /\ raised # "EmptyDataError") =>
        /\ raised = "none"
        /\ timestamp

\* C9: a failed search request leaves all_places and the terms still to
\* iterate as they were; search_places returns the results of every response
\* it received, after a query for every distinct term, the base keywords
\* among them; and main leaves the loop only after the last location.
C9_SearchFailureLocality ==
    [][ /\ (pc = "request" /\ pc' = "term" /\ log'[Len(log')].ev = "failure") =>
            /\ all_places' = all_places
            /\ termsLeft' = termsLeft
        /\ (pc = "term" /\ pc' = "place") =>
            /\ places' = ResultsUpTo(Len(log))
            /\ \A t \in TermSet(all_search_terms) \cup TermSet(SEARCH_KEYWORDS) :
                 \E i \in 1..Len(log) :
                    /\ log[i].ev = "request"
                    /\ IsQuery(log[i].params, t, locations[locIdx])
        /\ pc' = "collected" => locIdx = Len(locations)
      ]_vars

\* search_places is about to return: a request for a term failed after a
\* page with places, those places are kept, and a query for another term
\* was sent after the failure
C9_Witness ==
    /\ pc = "term"
    /\ termsLeft = { }
    /\ all_places # << >>
    /\ \E i \in 2..Len(log) :
         /\ log[i].ev = "failure"
         /\ \E j \in 1..(i - 1) :
              /\ log[j].ev = "response"
              /\ log[j].term = log[i].term
              /\ log[j].results # << >>
         /\ \E j \in (i + 1)..Len(log) :
              /\ log[j].ev = "request"
              /\ log[j].term # log[i].term

\* C10: a request that carries a token comes right after a wait that comes
\* right after the response that issued this token; and a wait only comes
\* right after a response that carries a token.
C10_TokenDelayOrdering ==
    \A i \in 1..Len(log) :
        /\ (log[i].ev = "request" /\ "pagetoken" \in DOMAIN log[i].params) =>
              /\ i >= 3
              /\ log[i - 1].ev = "sleep"
              /\ log[i - 2].ev = "response"
              /\ log[i - 2].token # NoToken
              /\ log[i - 2].token = log[i].params.pagetoken
        /\ log[i].ev = "sleep" =>
              /\ i >= 2
              /\ log[i - 1].ev = "response"
              /\ log[i - 1].token # NoToken

\* a request with a token was sent and answered
C10_Witness ==
    \E i \in 1..Len(log) :
        /\ log[i].ev = "request"
        /\ "pagetoken" \in DOMAIN log[i].params
        /\ i < Len(log)
        /\ log[i + 1].ev = "response"
====
